---- MODULE Spec2Model ----
(***************************************************************************)
(* Model of pyzeppelin's ZeppelinClient (src/zeppelin.py): a REST client   *)
(* holding one requests.Session and one base URI.  A Python str is a       *)
(* sequence of lexical tokens (a token is a TLA+ string), so that          *)
(* concatenation is \o and str.format / % are substitutions on tokens.     *)
(* A Python optional value is None (the empty sequence) or Some(v).        *)
(***************************************************************************)
EXTENDS Integers, Sequences, FiniteSets, TLC

VARIABLES
    phase,     \* "new": not constructed; "ready": __init__ returned; "failed": __init__ raised
    ctor,      \* the arguments __init__ was called with
    baseuri,   \* self.baseuri
    session,   \* self.session (identity of the requests.Session; 0: none)
    wire,      \* the HTTP requests sent so far, in order
    last,      \* the most recent call: arguments, server response, outcome
    ncalls     \* number of public methods called on the client

vars == <<phase, ctor, baseuri, session, wire, last, ncalls>>

\* Bound on the number of method calls made on one client.
MaxCalls == 2

None == <<>>
Some(v) == <<v>>

-----------------------------------------------------------------------------
(* Inputs *)

BASEURI_PATTERN == <<"http://", "{host}", ":", "{port}", "/api">>

CUSTOM_PATTERN == <<"https://", "{host}", ":", "{port}", "/zeppelin/api">>

\* (host, port, baseuri_pattern) as passed to the constructor: the defaults
\* and others, every two values of two parameters occurring together.
CtorArgs ==
    { [host |-> <<"localhost">>, port |-> 6080, pattern |-> BASEURI_PATTERN],
      [host |-> <<"zeppelin", ".", "example", ".", "com">>, port |-> 8080,
       pattern |-> BASEURI_PATTERN],
      [host |-> <<"localhost">>, port |-> 8080, pattern |-> CUSTOM_PATTERN],
      [host |-> <<"zeppelin", ".", "example", ".", "com">>, port |-> 6080,
       pattern |-> CUSTOM_PATTERN] }

\* auth: None or a (username, password) tuple; the second password holds a
\* character that is reserved in a URI query.
Credentials == {<<<<"alice">>, <<"secret">>>>, <<<<"bob">>, <<"p", "&", "w">>>>}
Auths == {None} \cup Credentials

NoteIds == {<<"2A94M5J1Z">>, <<"2BQA35CJZ">>}
ParagraphIds == {<<"20151121-212654_766735423">>}
Names == {None, Some(<<"copy">>)}
Payloads == {None, Some(<<"{\"params\":{}}">>)}

\* What the server may answer: status line and JSON document.
Responses ==
    { [status |-> 200, reason |-> <<"OK">>,
       json |-> [status |-> "OK", body |-> [code |-> "SUCCESS", msg |-> "data"]]],
      [status |-> 200, reason |-> <<"OK">>,
       json |-> [status |-> "OK", body |-> [code |-> "ERROR", msg |-> "trace"]]],
      [status |-> 304, reason |-> <<"Not Modified">>,
       json |-> [status |-> "NOT_MODIFIED"]],
      [status |-> 403, reason |-> <<"Forbidden">>,
       json |-> [status |-> "FORBIDDEN", message |-> "denied"]],
      [status |-> 500, reason |-> <<"Internal Server Error">>,
       json |-> [status |-> "INTERNAL_SERVER_ERROR",
                 body |-> [code |-> "ERROR", msg |-> "trace"]]] }

NoResponse == [status |-> 0, reason |-> <<>>, json |-> [status |-> "-"]]

-----------------------------------------------------------------------------
(* Python string operations *)

\* The replacement fields the templates of the file use.
Fields == {"{host}", "{port}", "{username}", "{password}", "{noteid}", "{paragraphid}"}

\* str.format(**kw): one left-to-right pass; each replacement field is
\* replaced by its argument, and the inserted text is not scanned again.
RECURSIVE Format(_, _)
Format(t, kw) ==
    IF t = <<>> THEN <<>>
    ELSE (IF Head(t) \in Fields THEN kw[Head(t)] ELSE <<Head(t)>>) \o Format(Tail(t), kw)

\* str(port) as "{port}" formats an int.
Str(n) == <<ToString(n)>>

\* Truth value of an optional str: None and "" are false.
Truthy(o) == o # None /\ o[1] # <<>>

-----------------------------------------------------------------------------
(* The client *)

\* Variant of BaseUri that ignores the baseuri_pattern argument.
BaseUriDefault(pattern, host, port) ==
    Format(BASEURI_PATTERN, [f \in {"{host}", "{port}"} |->
                                IF f = "{host}" THEN host ELSE Str(port)])

\* baseuri_pattern.format(host=host, port=port)
BaseUri(pattern, host, port) ==
    Format(pattern, [f \in {"{host}", "{port}"} |->
                        IF f = "{host}" THEN host ELSE Str(port)])

\* (self.baseuri + '/login?userName={username}&password={password}').format(...)
\* : the parentheses make format act on the concatenation.
LoginUri(base, username, password) ==
    Format(base \o <<"/login", "?", "userName", "=", "{username}",
                     "&", "password", "=", "{password}">>,
           [f \in {"{username}", "{password}"} |->
                IF f = "{username}" THEN username ELSE password])

\* requests' Response.ok: raise_for_status() raises for 400 <= status < 600.
Ok(r) == ~(r.status >= 400 /\ r.status < 600)

\* Variant of LoginRaises with the status check left out, as in _talk_to_host.
LoginRaisesNever(r) == FALSE

\* _login: `if not r.ok: raise Exception(...)`
LoginRaises(r) == ~Ok(r)

\* The message of the exception _login raises.
LoginMessage(r, uri) == r.reason \o <<": cannot login to zeppelin : ">> \o uri

\* self.session.post(uri) / self.session.request(method, uri, data=data)
Request(method, uri, data) ==
    [session |-> session, method |-> method, uri |-> uri, data |-> data]

Call(op, noteid, paragraphid, arg) ==
    [op |-> op, noteid |-> noteid, paragraphid |-> paragraphid, arg |-> arg,
     mark |-> Len(wire)]

Outcome(call, r, outcome, exc, msg, value) ==
    [op |-> call.op, noteid |-> call.noteid, paragraphid |-> call.paragraphid,
     arg |-> call.arg, mark |-> call.mark, resp |-> r,
     outcome |-> outcome, exc |-> exc, msg |-> msg, value |-> value]

Returned(call, r, value) == Outcome(call, r, "return", "", <<>>, value)
Raised(call, r, exc, msg) == Outcome(call, r, "raise", exc, msg, None)

Init ==
    /\ phase = "new"
    /\ ctor = [host |-> <<>>, port |-> 0, auth |-> None, pattern |-> <<>>]
    /\ baseuri = <<>>
    /\ session = 0
    /\ wire = <<>>
    /\ last = Returned(Call("-", None, None, None), NoResponse, None)
    /\ ncalls = 0

\* ZeppelinClient(host, port, auth, baseuri_pattern), with _login inlined.
ZeppelinClient_init ==
    /\ phase = "new"
    /\ \E a \in CtorArgs, auth \in Auths :
        LET base == BaseUri(a.pattern, a.host, a.port)
            call == Call("__init__", None, None, None)
        IN  /\ ctor' = [host |-> a.host, port |-> a.port, auth |-> auth,
                        pattern |-> a.pattern]
            /\ session' = 1
            /\ baseuri' = base
            /\ IF auth # None
               THEN \E r \in Responses :
                      LET uri == LoginUri(base, auth[1], auth[2])
                      IN  /\ wire' = Append(wire, [session |-> session', method |-> "POST",
                                                   uri |-> uri, data |-> None])
                          /\ IF LoginRaises(r)
                             THEN /\ phase' = "failed"
                                  /\ last' = Raised(call, r, "Exception", LoginMessage(r, uri))
                             ELSE /\ phase' = "ready"
                                  /\ last' = Returned(call, r, None)
               ELSE /\ wire' = wire
                    /\ phase' = "ready"
                    /\ last' = Returned(call, NoResponse, None)
    /\ UNCHANGED ncalls

\* A method can be called on a constructed client (calls are capped by MaxCalls).
Ready == phase = "ready" /\ ncalls < MaxCalls

\* What no method assigns: the attributes of the client.
Called == ncalls' = ncalls + 1 /\ UNCHANGED <<phase, ctor, baseuri, session>>

\* _talk_to_host(method, uri, data): one session.request, no status check;
\* the response r it returns is the server's choice.
talk_to_host(method, uri, data) == Append(wire, Request(method, uri, data))

\* Variant of JsonBody reading r.json().get('body'): None when there is none.
JsonBodyGet(call, r) ==
    IF "body" \in DOMAIN r.json
    THEN Returned(call, r, Some(r.json.body))
    ELSE Returned(call, r, None)

\* r.json()['body']: the value under 'body', or KeyError.
JsonBody(call, r) ==
    IF "body" \in DOMAIN r.json
    THEN Returned(call, r, Some(r.json.body))
    ELSE Raised(call, r, "KeyError", <<"'body'">>)

\* '/notebook/{noteid}'.format(noteid=noteid)
NotePath(noteid) ==
    Format(<<"/notebook", "/", "{noteid}">>, [f \in {"{noteid}"} |-> noteid])

\* '/notebook/job/{noteid}'.format(noteid=noteid)
JobPath(noteid) ==
    Format(<<"/notebook", "/job", "/", "{noteid}">>, [f \in {"{noteid}"} |-> noteid])

\* '/notebook/job/{noteid}/{paragraphid}'.format(noteid=..., paragraphid=...)
ParagraphJobPath(noteid, paragraphid) ==
    Format(<<"/notebook", "/job", "/", "{noteid}", "/", "{paragraphid}">>,
           [f \in {"{noteid}", "{paragraphid}"} |->
                IF f = "{noteid}" THEN noteid ELSE paragraphid])

\* '/notebook/run/{noteid}/{paragraphid}'.format(noteid=..., paragraphid=...)
ParagraphRunPath(noteid, paragraphid) ==
    Format(<<"/notebook", "/run", "/", "{noteid}", "/", "{paragraphid}">>,
           [f \in {"{noteid}", "{paragraphid}"} |->
                IF f = "{noteid}" THEN noteid ELSE paragraphid])

\* '{"name":"%s"}' % name if name else None
CloneData(name) ==
    IF Truthy(name) THEN Some(<<"{\"name\":\"">> \o name[1] \o <<"\"}">>) ELSE None

list_notebooks ==
    /\ Ready
    /\ \E r \in Responses :
        LET call == Call("list_notebooks", None, None, None)
            uri == baseuri \o <<"/notebook">>
        IN  /\ wire' = talk_to_host("GET", uri, None)
            /\ last' = JsonBody(call, r)
    /\ Called

get_status_of_all_paragraphs ==
    /\ Ready
    /\ \E noteid \in NoteIds, r \in Responses :
        LET call == Call("get_status_of_all_paragraphs", Some(noteid), None, None)
            uri == baseuri \o JobPath(noteid)
        IN  /\ wire' = talk_to_host("GET", uri, None)
            /\ last' = JsonBody(call, r)
    /\ Called

get_note_info ==
    /\ Ready
    /\ \E noteid \in NoteIds, r \in Responses :
        LET call == Call("get_note_info", Some(noteid), None, None)
            uri == baseuri \o NotePath(noteid)
        IN  /\ wire' = talk_to_host("GET", uri, None)
            /\ last' = JsonBody(call, r)
    /\ Called

delete_note ==
    /\ Ready
    /\ \E noteid \in NoteIds, r \in Responses :
        LET call == Call("delete_note", Some(noteid), None, None)
            uri == baseuri \o NotePath(noteid)
        IN  /\ wire' = talk_to_host("DELETE", uri, None)
            /\ last' = Returned(call, r, None)
    /\ Called

clone_note ==
    /\ Ready
    /\ \E noteid \in NoteIds, name \in Names, r \in Responses :
        LET call == Call("clone_note", Some(noteid), None, name)
            uri == baseuri \o NotePath(noteid)
            data == CloneData(name)
        IN  /\ wire' = talk_to_host("DELETE", uri, data)
            /\ last' = JsonBody(call, r)
    /\ Called

\* Variant of export_note that performs the REST call of its docstring.
export_note_get ==
    /\ Ready
    /\ \E noteid \in NoteIds, r \in Responses :
        LET call == Call("export_note", Some(noteid), None, None)
            uri == baseuri \o <<"/notebook", "/export", "/">> \o noteid
        IN  /\ wire' = talk_to_host("GET", uri, None)
            /\ last' = JsonBody(call, r)
    /\ Called

export_note ==
    /\ Ready
    /\ \E noteid \in NoteIds :
        /\ wire' = wire
        /\ last' = Raised(Call("export_note", Some(noteid), None, None),
                          NoResponse, "NotImplementedError", <<>>)
    /\ Called

import_note ==
    /\ Ready
    /\ wire' = wire
    /\ last' = Raised(Call("import_note", None, None, None),
                      NoResponse, "NotImplementedError", <<>>)
    /\ Called

run_all_paragraph ==
    /\ Ready
    /\ \E noteid \in NoteIds, r \in Responses :
        LET call == Call("run_all_paragraph", Some(noteid), None, None)
            uri == baseuri \o JobPath(noteid)
        IN  /\ wire' = talk_to_host("POST", uri, None)
            /\ last' = Returned(call, r, None)
    /\ Called

stop_all_paragraph ==
    /\ Ready
    /\ \E noteid \in NoteIds, r \in Responses :
        LET call == Call("stop_all_paragraph", Some(noteid), None, None)
            uri == baseuri \o JobPath(noteid)
        IN  /\ wire' = talk_to_host("DELETE", uri, None)
            /\ last' = Returned(call, r, None)
    /\ Called

\* The method has no noteid parameter and the module no global of that name:
\* evaluating format(noteid=noteid) raises NameError before any request.
clear_all_pargraph_results ==
    /\ Ready
    /\ wire' = wire
    /\ last' = Raised(Call("clear_all_pargraph_results", None, None, None),
                      NoResponse, "NameError", <<"name 'noteid' is not defined">>)
    /\ Called

create_paragraph ==
    /\ Ready
    /\ \E noteid \in NoteIds :
        /\ wire' = wire
        /\ last' = Raised(Call("create_paragraph", Some(noteid), None, None),
                          NoResponse, "NotImplementedError", <<>>)
    /\ Called

get_paragraph_info ==
    /\ Ready
    /\ \E noteid \in NoteIds, paragraphid \in ParagraphIds :
        /\ wire' = wire
        /\ last' = Raised(Call("get_paragraph_info", Some(noteid), Some(paragraphid), None),
                          NoResponse, "NotImplementedError", <<>>)
    /\ Called

get_paragraph_status ==
    /\ Ready
    /\ \E noteid \in NoteIds, paragraphid \in ParagraphIds, r \in Responses :
        LET call == Call("get_paragraph_status", Some(noteid), Some(paragraphid), None)
            uri == baseuri \o ParagraphJobPath(noteid, paragraphid)
        IN  /\ wire' = talk_to_host("GET", uri, None)
            /\ last' = JsonBody(call, r)
    /\ Called

update_paragraph_config ==
    /\ Ready
    /\ \E noteid \in NoteIds, paragraphid \in ParagraphIds :
        /\ wire' = wire
        /\ last' = Raised(Call("update_paragraph_config", Some(noteid), Some(paragraphid), None),
                          NoResponse, "NotImplementedError", <<>>)
    /\ Called

delete_paragraph ==
    /\ Ready
    /\ \E noteid \in NoteIds, paragraphid \in ParagraphIds :
        /\ wire' = wire
        /\ last' = Raised(Call("delete_paragraph", Some(noteid), Some(paragraphid), None),
                          NoResponse, "NotImplementedError", <<>>)
    /\ Called

run_paragraph_asynchronously ==
    /\ Ready
    /\ \E noteid \in NoteIds, paragraphid \in ParagraphIds, payload \in Payloads,
          r \in Responses :
        LET call == Call("run_paragraph_asynchronously", Some(noteid), Some(paragraphid), payload)
            uri == baseuri \o ParagraphJobPath(noteid, paragraphid)
        IN  /\ wire' = talk_to_host("POST", uri, payload)
            /\ last' = JsonBody(call, r)
    /\ Called

run_paragraph_synchronously ==
    /\ Ready
    /\ \E noteid \in NoteIds, paragraphid \in ParagraphIds, payload \in Payloads,
          r \in Responses :
        LET call == Call("run_paragraph_synchronously", Some(noteid), Some(paragraphid), payload)
            uri == baseuri \o ParagraphRunPath(noteid, paragraphid)
        IN  /\ wire' = talk_to_host("POST", uri, payload)
            /\ last' = JsonBody(call, r)
    /\ Called

\* payload is a required parameter that the method does not send.
stop_paragraph ==
    /\ Ready
    /\ \E noteid \in NoteIds, paragraphid \in ParagraphIds, payload \in Payloads,
          r \in Responses :
        LET call == Call("stop_paragraph", Some(noteid), Some(paragraphid), payload)
            uri == baseuri \o ParagraphJobPath(noteid, paragraphid)
        IN  /\ wire' = talk_to_host("DELETE", uri, None)
            /\ last' = Returned(call, r, None)
    /\ Called

Next ==
    \/ ZeppelinClient_init
    \/ list_notebooks
    \/ get_status_of_all_paragraphs
    \/ get_note_info
    \/ delete_note
    \/ clone_note
    \/ export_note
    \/ import_note
    \/ run_all_paragraph
    \/ stop_all_paragraph
    \/ clear_all_pargraph_results
    \/ create_paragraph
    \/ get_paragraph_info
    \/ get_paragraph_status
    \/ update_paragraph_config
    \/ delete_paragraph
    \/ run_paragraph_asynchronously
    \/ run_paragraph_synchronously
    \/ stop_paragraph

Spec == Init /\ [][Next]_vars
-----------------------------------------------------------------------------
(* Vocabulary of the properties *)

\* The methods that wrap a REST call, and their documented verb and path.
RequestOps ==
    {"list_notebooks", "get_status_of_all_paragraphs", "get_note_info", "delete_note",
     "clone_note", "run_all_paragraph", "stop_all_paragraph",
     "clear_all_pargraph_results", "get_paragraph_status",
     "run_paragraph_asynchronously", "run_paragraph_synchronously", "stop_paragraph"}

ExtractOps ==
    {"list_notebooks", "get_status_of_all_paragraphs", "get_note_info", "clone_note",
     "get_paragraph_status", "run_paragraph_asynchronously",
     "run_paragraph_synchronously"}

UnimplementedOps ==
    {"export_note", "import_note", "create_paragraph", "get_paragraph_info",
     "update_paragraph_config", "delete_paragraph"}

DocVerb(op) ==
    CASE op \in {"list_notebooks", "get_status_of_all_paragraphs", "get_note_info",
                 "get_paragraph_status"} -> "GET"
      [] op \in {"delete_note", "stop_all_paragraph", "stop_paragraph"} -> "DELETE"
      [] op \in {"clone_note", "run_all_paragraph", "run_paragraph_asynchronously",
                 "run_paragraph_synchronously"} -> "POST"
      [] op = "clear_all_pargraph_results" -> "PUT"

\* The documented path of a call c, with its arguments filled in.
DocPath(c) ==
    CASE c.op = "list_notebooks" -> <<"/notebook">>
      [] c.op \in {"get_note_info", "delete_note", "clone_note"} ->
            <<"/notebook", "/">> \o c.noteid[1]
      [] c.op \in {"get_status_of_all_paragraphs", "run_all_paragraph",
                   "stop_all_paragraph"} ->
            <<"/notebook", "/job", "/">> \o c.noteid[1]
      [] c.op = "clear_all_pargraph_results" ->
            <<"/notebook", "/job", "/">> \o c.noteid[1] \o <<"/clear">>
      [] c.op \in {"get_paragraph_status", "run_paragraph_asynchronously",
                   "stop_paragraph"} ->
            <<"/notebook", "/job", "/">> \o c.noteid[1] \o <<"/">> \o c.paragraphid[1]
      [] c.op = "run_paragraph_synchronously" ->
            <<"/notebook", "/run", "/">> \o c.noteid[1] \o <<"/">> \o c.paragraphid[1]

\* The requests the most recent call sent.
Sent == SubSeq(wire, last.mark + 1, Len(wire))

StartsWith(s, prefix) ==
    Len(s) >= Len(prefix) /\ SubSeq(s, 1, Len(prefix)) = prefix

Contains(s, sub) ==
    \E i \in 1..(Len(s) - Len(sub) + 1) : SubSeq(s, i, i + Len(sub) - 1) = sub

\* Position of the first token tok in s, or 0.
IndexOf(s, tok) ==
    IF \E i \in DOMAIN s : s[i] = tok
    THEN CHOOSE i \in DOMAIN s : s[i] = tok /\ \A j \in 1..(i - 1) : s[j] # tok
    ELSE 0

\* The query of a URI and its name=value pairs, as a server parses them.
Query(uri) ==
    IF IndexOf(uri, "?") = 0 THEN <<>> ELSE SubSeq(uri, IndexOf(uri, "?") + 1, Len(uri))

RECURSIVE SplitAmp(_)
SplitAmp(q) ==
    IF IndexOf(q, "&") = 0 THEN <<q>>
    ELSE <<SubSeq(q, 1, IndexOf(q, "&") - 1)>>
            \o SplitAmp(SubSeq(q, IndexOf(q, "&") + 1, Len(q)))

QueryParam(uri, name) ==
    LET pairs == SplitAmp(Query(uri))
        hit(i) == Len(pairs[i]) >= 2 /\ pairs[i][1] = name /\ pairs[i][2] = "="
    IN  IF \E i \in DOMAIN pairs : hit(i)
        THEN LET k == CHOOSE i \in DOMAIN pairs : hit(i) /\ \A j \in 1..(i - 1) : ~hit(j)
             IN  Some(SubSeq(pairs[k], 3, Len(pairs[k])))
        ELSE None

IsLogin(req) ==
    /\ req.method = "POST"
    /\ StartsWith(req.uri, baseuri \o <<"/login">>)
    /\ (Len(req.uri) = Len(baseuri) + 1 \/ req.uri[Len(baseuri) + 2] = "?")

LoginCount == Cardinality({i \in DOMAIN wire : IsLogin(wire[i])})

HasBody(r) == "body" \in DOMAIN r.json

-----------------------------------------------------------------------------
(* Properties *)

\* C1: every REST-wrapping method sends exactly one request, with the verb
\* and the path documented for it.
C1_OneDocumentedRequest ==
    last.op \in RequestOps =>
        /\ Len(Sent) = 1
        /\ Sent[1].method = DocVerb(last.op)
        /\ Sent[1].uri = baseuri \o DocPath(last)

\* C2: a client sends exactly one login request if it was given credentials
\* and none otherwise; the login is a POST to {baseuri}/login whose userName
\* and password query parameters are the credentials, and it is the first
\* request of the client.
C2_LoginOnce ==
    phase # "new" =>
        IF ctor.auth = None
        THEN LoginCount = 0
        ELSE /\ LoginCount = 1
             /\ IsLogin(wire[1])
             /\ QueryParam(wire[1].uri, "userName") = Some(ctor.auth[1])
             /\ QueryParam(wire[1].uri, "password") = Some(ctor.auth[2])

\* The parts of C2 about the number and the place of the login request.
LoginOnceAndFirst ==
    phase # "new" =>
        IF ctor.auth = None
        THEN LoginCount = 0
        ELSE /\ LoginCount = 1
             /\ IsLogin(wire[1])
             /\ wire[1].uri = baseuri \o <<"/login", "?", "userName", "=">> \o ctor.auth[1]
                                \o <<"&", "password", "=">> \o ctor.auth[2]

\* How construction with credentials must have ended when it fails.
LoginFailed ==
    /\ phase = "failed"
    /\ last.outcome = "raise"
    /\ last.exc = "Exception"
    /\ Contains(last.msg, last.resp.reason)
    /\ Contains(last.msg, wire[1].uri)
    /\ Len(wire) = 1
    /\ IsLogin(wire[1])

C5_NeverRaises ==
    last.op \in RequestOps => last.outcome = "return"

C7_ClonePosts ==
    last.op = "clone_note" =>
        /\ Len(Sent) = 1
        /\ Sent[1].method = "POST"
        /\ Sent[1].uri = baseuri \o <<"/notebook", "/">> \o last.noteid[1]
        /\ Sent[1].data = IF last.arg = None THEN None
                          ELSE Some(<<"{\"name\":\"">> \o last.arg[1] \o <<"\"}">>)
        /\ HasBody(last.resp) => last.value = Some(last.resp.json.body)
        /\ \A i \in DOMAIN Sent :
              ~(Sent[i].method = "DELETE"
                /\ Sent[i].uri = baseuri \o <<"/notebook", "/">> \o last.noteid[1])

\* C8: run_paragraph_synchronously sends one POST to
\* {baseuri}/notebook/run/{noteid}/{paragraphid}, returns the body when the
\* server reports SUCCESS and raises when it reports ERROR.
C8_RunSyncRaisesOnError ==
    last.op = "run_paragraph_synchronously" =>
        /\ Len(Sent) = 1
        /\ Sent[1].method = "POST"
        /\ Sent[1].uri = baseuri \o DocPath(last)
        /\ (HasBody(last.resp) /\ last.resp.json.body.code = "SUCCESS") =>
              (last.outcome = "return" /\ last.value = Some(last.resp.json.body))
        /\ (HasBody(last.resp) /\ last.resp.json.body.code = "ERROR") =>
              last.outcome = "raise"

\* C9: clear_all_pargraph_results sends exactly one PUT to
\* {baseuri}/notebook/job/{noteId}/clear and returns None without raising.
C9_ClearPuts ==
    last.op = "clear_all_pargraph_results" =>
        /\ Len(Sent) = 1
        /\ Sent[1].method = "PUT"
        /\ \E n \in NoteIds :
              Sent[1].uri = baseuri \o <<"/notebook", "/job", "/">> \o n \o <<"/clear">>
        /\ last.outcome = "return"
        /\ last.value = None

\* The pattern with {host} and {port} each replaced once, in place.
Substituted(pattern, host, port) ==
    LET h == IndexOf(pattern, "{host}")
        p == IndexOf(pattern, "{port}")
    IN  SubSeq(pattern, 1, h - 1) \o host \o SubSeq(pattern, h + 1, p - 1)
            \o <<ToString(port)>> \o SubSeq(pattern, p + 1, Len(pattern))

\* C10: from construction on, the base URI is the pattern with {host} and
\* {port} substituted once, the session is the one created at construction,
\* and every request went over that session to a URI starting with the
\* base URI.
C10_BaseUriFixed ==
    phase # "new" =>
        /\ baseuri = Substituted(ctor.pattern, ctor.host, ctor.port)
        /\ session = 1
        /\ \A i \in DOMAIN wire :
              wire[i].session = session /\ StartsWith(wire[i].uri, baseuri)

C10_Witness ==
    /\ phase = "ready"
    /\ ncalls >= 2
    /\ Len(wire) >= 2
    /\ last.exc = "KeyError"
    /\ ctor.pattern # BASEURI_PATTERN
    /\ baseuri = <<"https://", "localhost", ":", "8080", "/zeppelin/api">>
====
